---- MODULE Spec2Model ----
(***************************************************************************)
(* Model of mcp-server.py: the ProPresenter API helper                     *)
(* call_propresenter_api and the tool catalog built on it.                 *)
(*                                                                         *)
(* Python values are tagged records; a Python str is a sequence of text    *)
(* fragments so that an f-string is the concatenation of its pieces.       *)
(***************************************************************************)
EXTENDS Integers, Sequences, FiniteSets, TLC

VARIABLES host, port, pc, tool, args, requests, outcomes, returns, result, exc

vars == <<host, port, pc, tool, args, requests, outcomes, returns, result, exc>>

(* ------------------------------ bounds --------------------------------- *)

\* longest macro listing the upstream answers with
MaxItems == 2

(* --------------------------- Python values ----------------------------- *)

None == [type |-> "NoneType"]
Str(parts) == [type |-> "str", s |-> parts]
PyInt(n) == [type |-> "int", n |-> n]
Dict(keys, vals) == [type |-> "dict", keys |-> keys, vals |-> vals]
List(elems) == [type |-> "list", elems |-> elems]

\* d.get(key, default) of a dict
DictGet(d, key, default) ==
    IF \E i \in 1..Len(d.keys) : d.keys[i] = key
    THEN d.vals[CHOOSE i \in 1..Len(d.keys) : d.keys[i] = key]
    ELSE default

\* only a dict has the attribute .get
HasGet(v) == v.type = "dict"

\* Python truthiness, as used by "if not macro_id"
Truthy(v) ==
    CASE v.type = "NoneType" -> FALSE
      [] v.type = "str" -> v.s # <<>>
      [] v.type = "int" -> v.n # 0
      [] v.type = "dict" -> v.keys # <<>>
      [] v.type = "list" -> v.elems # <<>>

\* what a for loop over v visits: the elements of a list, the keys of a dict
Iter(v) ==
    IF v.type = "list" THEN v.elems
    ELSE [i \in 1..Len(v.keys) |-> Str(<<v.keys[i]>>)]

\* {v} inside an f-string
Format(v) ==
    CASE v.type = "str" -> v.s
      [] v.type = "int" -> <<ToString(v.n)>>
      [] OTHER -> <<"None">>

(* ------------------------- JSON on the wire ---------------------------- *)

JNull == [j |-> "null"]
JString(c) == [j |-> "string", chars |-> c]
JObject(names, values) == [j |-> "object", names |-> names, values |-> values]
JArray(elems) == [j |-> "array", elems |-> elems]

\* json.loads: object -> dict, array -> list, string -> str, null -> None
RECURSIVE Loads(_)
Loads(doc) ==
    CASE doc.j = "null" -> None
      [] doc.j = "string" -> Str(<<doc.chars>>)
      [] doc.j = "object" ->
            Dict(doc.names, [i \in 1..Len(doc.values) |-> Loads(doc.values[i])])
      [] doc.j = "array" ->
            List([i \in 1..Len(doc.elems) |-> Loads(doc.elems[i])])

RECURSIVE Dumps(_)
RECURSIVE DumpsMembers(_, _)
RECURSIVE DumpsElems(_, _)
\* the text of a JSON document, as fragments
Dumps(doc) ==
    CASE doc.j = "null" -> <<"null">>
      [] doc.j = "string" -> <<"\"", doc.chars, "\"">>
      [] doc.j = "object" -> <<"{">> \o DumpsMembers(doc, 1) \o <<"}">>
      [] doc.j = "array" -> <<"[">> \o DumpsElems(doc, 1) \o <<"]">>
DumpsMembers(doc, i) ==
    IF i > Len(doc.names) THEN <<>>
    ELSE (IF i > 1 THEN <<",">> ELSE <<>>)
         \o <<"\"", doc.names[i], "\"", ":">> \o Dumps(doc.values[i])
         \o DumpsMembers(doc, i + 1)
DumpsElems(doc, i) ==
    IF i > Len(doc.elems) THEN <<>>
    ELSE (IF i > 1 THEN <<",">> ELSE <<>>)
         \o Dumps(doc.elems[i]) \o DumpsElems(doc, i + 1)

(* ------------------------- response bodies ----------------------------- *)

EmptyBody == [enc |-> "empty"]
TextBody(raw) == [enc |-> "text", raw |-> raw]
JsonBody(doc) == [enc |-> "json", doc |-> doc]

\* response.content is falsy exactly for a zero-length body
ContentEmpty(body) == body.enc = "empty"

\* response.text
ResponseText(body) ==
    CASE body.enc = "empty" -> <<>>
      [] body.enc = "text" -> body.raw
      [] body.enc = "json" -> Dumps(body.doc)

\* response.json() raises ValueError unless the body is a JSON document
JsonRaises(body) == body.enc # "json"
ResponseJson(body) == Loads(body.doc)

(* ------------------------ upstream behaviour --------------------------- *)

MacroItem(n, u) ==
    JObject(<<"name", "id">>, <<JString(n), JObject(<<"uuid">>, <<JString(u)>>)>>)

ItemPool == {MacroItem("A", "1"), MacroItem("A", "2"),
             MacroItem("a", "3"), MacroItem("B", "4")}

RECURSIVE SeqsUpTo(_, _)
SeqsUpTo(S, n) ==
    IF n = 0 THEN {<<>>}
    ELSE LET shorter == SeqsUpTo(S, n - 1)
         IN shorter \cup {Append(q, e) : q \in shorter, e \in S}

JsonDocs ==
    {JArray(q) : q \in SeqsUpTo(ItemPool, MaxItems)}
    \cup {JObject(<<>>, <<>>),
          JObject(<<"status">>, <<JString("error")>>),
          JObject(<<"status", "message">>, <<JString("ok"), JString("done")>>),
          JObject(<<"macros">>, <<JArray(<<MacroItem("A", "1")>>)>>),
          JString("A"),
          JNull}

Bodies == {EmptyBody, TextBody(<<"OK">>)} \cup {JsonBody(d) : d \in JsonDocs}

Statuses == {200, 201, 204, 302, 401, 403, 404, 500, 503}

\* a 204 response never carries content
Responses ==
    {[kind |-> "response", status |-> s, body |-> b, detail |-> ""] :
        s \in Statuses \ {204}, b \in Bodies}
    \cup {[kind |-> "response", status |-> 204, body |-> EmptyBody, detail |-> ""]}

\* client.request raised instead of returning a response
Failures ==
    {[kind |-> "timeout", status |-> 0, body |-> EmptyBody,
      detail |-> "timed out"],
     [kind |-> "connect", status |-> 0, body |-> EmptyBody,
      detail |-> "All connection attempts failed"],
     [kind |-> "request_error", status |-> 0, body |-> EmptyBody,
      detail |-> "Server disconnected without sending a response."],
     [kind |-> "unexpected", status |-> 0, body |-> EmptyBody,
      detail |-> "Invalid port"]}

Outcomes == Responses \cup Failures

\* response.raise_for_status() raises HTTPStatusError unless the status is 2xx
IsSuccess(status) == status >= 200 /\ status <= 299

(* ---------------------------- configuration ---------------------------- *)

DefaultPort == 50001
Hosts == {"localhost", "192.168.1.100"}
Ports == {DefaultPort}

\* PROPRESENTER_API_URL = f"http://{PROPRESENTER_HOST}:{PROPRESENTER_PORT}"
PROPRESENTER_API_URL == <<"http://", host, ":", ToString(port)>>

(* ------------------------------ API client ----------------------------- *)

\* the uniform error shape without a status code
ErrorResult(msg) ==
    Dict(<<"status", "message">>, <<Str(<<"error">>), Str(msg)>>)

ActionCompleted ==
    Dict(<<"status", "message">>,
         <<Str(<<"success">>), Str(<<"Action completed successfully.">>)>>)

\* TimeoutMessage with the target left out of the diagnostic
TimeoutMessageNoTarget ==
    <<"Request timed out connecting to ProPresenter.",
      " Ensure ProPresenter is running and the network API is enabled.">>

\* except httpx.TimeoutException
TimeoutMessage ==
    <<"Request timed out connecting to ProPresenter at ">>
    \o PROPRESENTER_API_URL
    \o <<". Ensure ProPresenter is running and the network API is enabled.">>

\* except httpx.ConnectError
ConnectMessage ==
    <<"Cannot connect to ProPresenter at ">>
    \o PROPRESENTER_API_URL
    \o <<". Check that ProPresenter is running, the API is enabled in Network settings, and the host/port are correct.">>

\* StatusMessage with 403 missing from the authentication branch
StatusMessage401Only(endpoint, status, body) ==
    IF status = 404
    THEN <<"Endpoint not found: ">> \o endpoint
         \o <<". This endpoint may not be supported in your ProPresenter version.">>
    ELSE IF status = 401
    THEN <<"Authentication failed. Check if ProPresenter requires authentication credentials.">>
    ELSE IF status = 500
    THEN <<"ProPresenter server error. The API request was received but ProPresenter encountered an internal error.">>
    ELSE <<"HTTP ", ToString(status), " error: ">> \o ResponseText(body)

\* except httpx.HTTPStatusError: the message chosen by status
StatusMessage(endpoint, status, body) ==
    IF status = 404
    THEN <<"Endpoint not found: ">> \o endpoint
         \o <<". This endpoint may not be supported in your ProPresenter version.">>
    ELSE IF status = 401 \/ status = 403
    THEN <<"Authentication failed. Check if ProPresenter requires authentication credentials.">>
    ELSE IF status = 500
    THEN <<"ProPresenter server error. The API request was received but ProPresenter encountered an internal error.">>
    ELSE <<"HTTP ", ToString(status), " error: ">> \o ResponseText(body)

HTTPStatusResult(endpoint, status, body) ==
    Dict(<<"status", "message", "status_code">>,
         <<Str(<<"error">>), Str(StatusMessage(endpoint, status, body)),
           PyInt(status)>>)

\* SuccessResult with the parsed body wrapped in a success envelope
SuccessResultEnveloped(status, body) ==
    IF status = 204 THEN ActionCompleted
    ELSE IF status = 200 /\ ContentEmpty(body) THEN ActionCompleted
    ELSE IF JsonRaises(body)
    THEN Dict(<<"status", "data">>, <<Str(<<"success">>), Str(ResponseText(body))>>)
    ELSE Dict(<<"status", "data">>, <<Str(<<"success">>), ResponseJson(body)>>)

\* SuccessResult without the inner try: the ValueError of response.json()
\* reaches the outer "except Exception"
SuccessResultNoTextFallback(status, body) ==
    IF status = 204 THEN ActionCompleted
    ELSE IF status = 200 /\ ContentEmpty(body) THEN ActionCompleted
    ELSE IF JsonRaises(body)
    THEN ErrorResult(<<"Unexpected error: ", "Expecting value: line 1 column 1 (char 0)">>)
    ELSE ResponseJson(body)

\* the try block after raise_for_status() has let a 2xx response through
SuccessResult(status, body) ==
    IF status = 204 THEN ActionCompleted
    ELSE IF status = 200 /\ ContentEmpty(body) THEN ActionCompleted
    ELSE IF JsonRaises(body)
    THEN Dict(<<"status", "data">>, <<Str(<<"success">>), Str(ResponseText(body))>>)
    ELSE ResponseJson(body)

\* the value call_propresenter_api(endpoint, ...) returns for an outcome of
\* its single client.request
call_propresenter_api(endpoint, outcome) ==
    CASE outcome.kind = "timeout" -> ErrorResult(TimeoutMessage)
      [] outcome.kind = "connect" -> ErrorResult(ConnectMessage)
      [] outcome.kind = "request_error" ->
            ErrorResult(<<"Network error occurred: ", outcome.detail>>)
      [] outcome.kind = "unexpected" ->
            ErrorResult(<<"Unexpected error: ", outcome.detail>>)
      [] outcome.kind = "response" ->
            IF ~IsSuccess(outcome.status)
            THEN HTTPStatusResult(endpoint, outcome.status, outcome.body)
            ELSE SuccessResult(outcome.status, outcome.body)

\* the request client.request(method, full_url, timeout=10.0) sends
Request(method, endpoint) ==
    [method |-> method, endpoint |-> endpoint,
     url |-> PROPRESENTER_API_URL \o endpoint]

(* ------------------------------ tool catalog --------------------------- *)

Tool(method, params, path) == [method |-> method, params |-> params, path |-> path]

\* one entry per @mcp.tool(): HTTP method, parameters, path template
Catalog ==
    [get_active_presentation |-> Tool("GET", "none", <<"/v1/presentation/active">>),
     get_slide_index |-> Tool("GET", "none", <<"/v1/presentation/slide_index">>),
     trigger_slide_by_index |->
        Tool("GET", "index", <<"/v1/presentation/active/", "{index}", "/trigger">>),
     next_slide |-> Tool("GET", "none", <<"/v1/presentation/active/next">>),
     previous_slide |-> Tool("GET", "none", <<"/v1/presentation/active/previous">>),
     focus_presentation |-> Tool("GET", "none", <<"/v1/presentation/active/focus">>),
     get_libraries |-> Tool("GET", "none", <<"/v1/libraries">>),
     get_library_items |-> Tool("GET", "id", <<"/v1/library/", "{id}">>),
     get_playlists |-> Tool("GET", "none", <<"/v1/playlists">>),
     get_active_playlist |-> Tool("GET", "none", <<"/v1/playlist/active">>),
     get_playlist_items |-> Tool("GET", "id", <<"/v1/playlist/", "{id}">>),
     focus_playlist_item |->
        Tool("GET", "id_index", <<"/v1/playlist/", "{id}", "/", "{index}", "/focus">>),
     trigger_playlist_item |->
        Tool("GET", "id_index", <<"/v1/playlist/", "{id}", "/", "{index}", "/trigger">>),
     get_looks |-> Tool("GET", "none", <<"/v1/looks">>),
     get_current_look |-> Tool("GET", "none", <<"/v1/look/current">>),
     trigger_look_by_id |-> Tool("GET", "id", <<"/v1/look/", "{id}", "/trigger">>),
     get_macros |-> Tool("GET", "none", <<"/v1/macros">>),
     trigger_macro_by_id |-> Tool("GET", "id", <<"/v1/macro/", "{id}", "/trigger">>),
     trigger_macro_by_name |-> Tool("GET", "name", <<"/v1/macros">>),
     get_messages |-> Tool("GET", "none", <<"/v1/messages">>),
     trigger_message_by_id |-> Tool("POST", "id", <<"/v1/message/", "{id}", "/trigger">>),
     clear_message_by_id |-> Tool("GET", "id", <<"/v1/message/", "{id}", "/clear">>),
     get_props |-> Tool("GET", "none", <<"/v1/props">>),
     trigger_prop_by_id |-> Tool("GET", "id", <<"/v1/prop/", "{id}", "/trigger">>),
     clear_prop_by_id |-> Tool("GET", "id", <<"/v1/prop/", "{id}", "/clear">>),
     get_timers |-> Tool("GET", "none", <<"/v1/timers">>),
     start_timer_by_id |-> Tool("GET", "id", <<"/v1/timer/", "{id}", "/start">>),
     stop_timer_by_id |-> Tool("GET", "id", <<"/v1/timer/", "{id}", "/stop">>),
     reset_timer_by_id |-> Tool("GET", "id", <<"/v1/timer/", "{id}", "/reset">>),
     get_audio_playlists |-> Tool("GET", "none", <<"/v1/audio/playlists">>),
     get_audio_playlist_items |-> Tool("GET", "id", <<"/v1/audio/playlist/", "{id}">>),
     clear_all |-> Tool("GET", "none", <<"/v1/clear/all">>),
     clear_layer |-> Tool("GET", "layer", <<"/v1/clear/layer/", "{id}">>),
     get_clear_groups |-> Tool("GET", "none", <<"/v1/clear/groups">>),
     trigger_clear_group_by_id |->
        Tool("GET", "id", <<"/v1/clear/group/", "{id}", "/trigger">>),
     get_stage_layouts |-> Tool("GET", "none", <<"/v1/stage/layouts">>),
     get_active_stage_layout |-> Tool("GET", "none", <<"/v1/stage/layout">>),
     set_stage_layout_by_id |-> Tool("PUT", "id", <<"/v1/stage/layout/", "{id}">>),
     get_themes |-> Tool("GET", "none", <<"/v1/themes">>),
     get_theme_by_id |-> Tool("GET", "id", <<"/v1/theme/", "{id}">>),
     get_video_inputs |-> Tool("GET", "none", <<"/v1/video_inputs">>),
     trigger_video_input_by_index |->
        Tool("GET", "index", <<"/v1/video_input/", "{index}", "/trigger">>),
     find_my_mouse |-> Tool("GET", "none", <<"/v1/find_my_mouse">>)]

Tools == DOMAIN Catalog

Ids == {"1", "2"}
Layers == {"audio", "slide"}
Indexes == {0, 1}
MacroNames == {"A", "C"}

Args(id, index, name) == [id |-> id, index |-> index, name |-> name]
NoArgs == Args("", 0, "")

\* the arguments a tool with the given parameters can be invoked with
ArgSets(params) ==
    CASE params = "none" -> {NoArgs}
      [] params = "id" -> {Args(i, 0, "") : i \in Ids}
      [] params = "layer" -> {Args(l, 0, "") : l \in Layers}
      [] params = "index" -> {Args("", n, "") : n \in Indexes}
      [] params = "id_index" -> {Args(i, n, "") : i \in Ids, n \in Indexes}
      [] params = "name" -> {Args("", 0, m) : m \in MacroNames}

\* the f-string of a tool's path with its arguments interpolated
Endpoint(t, a) ==
    LET path == Catalog[t].path
    IN [k \in 1..Len(path) |->
           IF path[k] = "{id}" THEN a.id
           ELSE IF path[k] = "{index}" THEN ToString(a.index)
           ELSE path[k]]

(* --------------------------- tool control flow ------------------------- *)

Return(value) ==
    [op |-> "return", value |-> value, exc |-> "", method |-> "", endpoint |-> <<>>]
Raise(e) ==
    [op |-> "raise", value |-> None, exc |-> e, method |-> "", endpoint |-> <<>>]
Call(method, endpoint) ==
    [op |-> "call", value |-> None, exc |-> "", method |-> method, endpoint |-> endpoint]

\* the for loop of trigger_macro_by_name from its i-th item on
RECURSIVE FindMacro(_, _, _)
FindMacro(items, name, i) ==
    IF i > Len(items) THEN Return(None)
    ELSE LET macro == items[i]
         IN IF ~HasGet(macro) THEN Raise("AttributeError")
            ELSE IF DictGet(macro, "name", None) = Str(<<name>>)
            THEN LET id == DictGet(macro, "id", Dict(<<>>, <<>>))
                 IN IF ~HasGet(id) THEN Raise("AttributeError")
                    ELSE Return(DictGet(id, "uuid", None))
            ELSE FindMacro(items, name, i + 1)

\* trigger_macro_by_name asking for the listing again when it came back as
\* an error
trigger_macro_by_name_retry(name, macros_response) ==
    IF ~HasGet(macros_response) THEN Raise("AttributeError")
    ELSE IF DictGet(macros_response, "status", None) = Str(<<"error">>)
    THEN Call("GET", <<"/v1/macros">>)
    ELSE LET found == FindMacro(Iter(macros_response), name, 1)
         IN IF found.op = "raise" THEN found
            ELSE IF ~Truthy(found.value)
            THEN Return(ErrorResult(<<"Macro with name '", name, "' not found.">>))
            ELSE Call("GET", <<"/v1/macro/">> \o Format(found.value) \o <<"/trigger">>)

\* trigger_macro_by_name reporting a failed listing as a missing macro
trigger_macro_by_name_masked(name, macros_response) ==
    IF ~HasGet(macros_response) THEN Raise("AttributeError")
    ELSE IF DictGet(macros_response, "status", None) = Str(<<"error">>)
    THEN Return(ErrorResult(<<"Macro with name '", name, "' not found.">>))
    ELSE LET found == FindMacro(Iter(macros_response), name, 1)
         IN IF found.op = "raise" THEN found
            ELSE IF ~Truthy(found.value)
            THEN Return(ErrorResult(<<"Macro with name '", name, "' not found.">>))
            ELSE Call("GET", <<"/v1/macro/">> \o Format(found.value) \o <<"/trigger">>)

\* trigger_macro_by_name once its listing call has returned macros_response
trigger_macro_by_name(name, macros_response) ==
    IF ~HasGet(macros_response) THEN Raise("AttributeError")
    ELSE IF DictGet(macros_response, "status", None) = Str(<<"error">>)
    THEN Return(macros_response)
    ELSE LET found == FindMacro(Iter(macros_response), name, 1)
         IN IF found.op = "raise" THEN found
            ELSE IF ~Truthy(found.value)
            THEN Return(ErrorResult(<<"Macro with name '", name, "' not found.">>))
            ELSE Call("GET", <<"/v1/macro/">> \o Format(found.value) \o <<"/trigger">>)

\* what a tool does when its n-th call of the API client has returned value
Resume(t, a, n, value) ==
    IF t = "trigger_macro_by_name" /\ n = 1
    THEN trigger_macro_by_name(a.name, value)
    ELSE Return(value)

(* -------------------------------- actions ------------------------------ *)

Init ==
    /\ host \in Hosts
    /\ port \in Ports
    /\ pc = "idle"
    /\ tool = ""
    /\ args = NoArgs
    /\ requests = <<>>
    /\ outcomes = <<>>
    /\ returns = <<>>
    /\ result = None
    /\ exc = ""

\* the protocol layer invokes tool t, which sends its first request; every
\* invocation starts afresh, whatever the previous one ended with
Invoke(t, a) ==
    /\ pc # "in_call"
    /\ pc' = "in_call"
    /\ tool' = t
    /\ args' = a
    /\ requests' = <<Request(Catalog[t].method, Endpoint(t, a))>>
    /\ outcomes' = <<>>
    /\ returns' = <<>>
    /\ result' = None
    /\ exc' = ""
    /\ UNCHANGED <<host, port>>

\* the pending request ends with outcome o; the tool runs on from there
Receive(o) ==
    /\ pc = "in_call"
    /\ LET n == Len(requests)
           value == call_propresenter_api(requests[n].endpoint, o)
           next == Resume(tool, args, n, value)
       IN /\ outcomes' = Append(outcomes, o)
          /\ returns' = Append(returns, value)
          /\ pc' = CASE next.op = "return" -> "returned"
                     [] next.op = "raise" -> "raised"
                     [] next.op = "call" -> "in_call"
          /\ result' = next.value
          /\ exc' = next.exc
          /\ requests' = IF next.op = "call"
                         THEN Append(requests, Request(next.method, next.endpoint))
                         ELSE requests
    /\ UNCHANGED <<host, port, tool, args>>

Next ==
    \/ \E t \in Tools : \E a \in ArgSets(Catalog[t].params) : Invoke(t, a)
    \/ \E o \in Outcomes : Receive(o)

Spec == Init /\ [][Next]_vars

TypeOK ==
    /\ pc \in {"idle", "in_call", "returned", "raised"}
    /\ Len(outcomes) = Len(returns)

(* ------------------------------ vocabulary ----------------------------- *)

ByName == tool = "trigger_macro_by_name"

Is2xx(o) == o.kind = "response" /\ o.status >= 200 /\ o.status <= 299
IsHttpError(o) == o.kind = "response" /\ ~(o.status >= 200 /\ o.status <= 299)
IsTransportFailure(o) == o.kind # "response"

\* sub occurs in msg as a run of consecutive fragments
Contains(msg, sub) ==
    \E i \in 1..(Len(msg) + 1 - Len(sub)) : SubSeq(msg, i, i + Len(sub) - 1) = sub

KeySet(d) == {d.keys[i] : i \in 1..Len(d.keys)}

\* the base URL spelled out from the configured host and port
ConfiguredTarget == <<"http://", host, ":", ToString(port)>>

ListingPath == <<"/v1/macros">>

NotFoundResult ==
    [type |-> "dict", keys |-> <<"status", "message">>,
     vals |-> <<[type |-> "str", s |-> <<"error">>],
                [type |-> "str",
                 s |-> <<"Macro with name '", args.name, "' not found.">>]>>]

CompletedResult ==
    [type |-> "dict", keys |-> <<"status", "message">>,
     vals |-> <<[type |-> "str", s |-> <<"success">>],
                [type |-> "str", s |-> <<"Action completed successfully.">>]>>]

\* the listing answered 2xx with a JSON array of macro items
ListingIsArray ==
    /\ ByName
    /\ Len(outcomes) >= 1
    /\ Is2xx(outcomes[1])
    /\ outcomes[1].body.enc = "json"
    /\ outcomes[1].body.doc.j = "array"

Listed == outcomes[1].body.doc.elems
ItemName(item) == item.values[1].chars
ItemUuid(item) == item.values[2].values[1].chars
Matches == {i \in 1..Len(Listed) : ItemName(Listed[i]) = args.name}
FirstMatch == CHOOSE i \in Matches : \A k \in Matches : i <= k

(* -------------------------------- claims ------------------------------- *)

\* C1: no tool invocation ends in an exception escaping the tool function:
\* whatever the upstream does, the invocation returns a result value.
NoToolRaises == pc # "raised"

\* C2: when the listing succeeds with a list holding an item named exactly
\* `name`, trigger_macro_by_name issues exactly one action request, and it
\* targets /v1/macro/<id>/trigger for the id of the first such item.
TriggersFirstMatch ==
    (ListingIsArray /\ Matches # {}) =>
        /\ pc # "raised"
        /\ Len(requests) = 2
        /\ requests[2].method = "GET"
        /\ requests[2].url =
              ConfiguredTarget
              \o <<"/v1/macro/", ItemUuid(Listed[FirstMatch]), "/trigger">>

\* C3: when the listing succeeds and no listed item is named exactly `name`,
\* trigger_macro_by_name returns the synthetic not-found error (no
\* status_code) and the listing GET is the invocation's only request.
NotFoundWhenAbsent ==
    (ListingIsArray /\ Matches = {}) =>
        /\ pc = "returned"
        /\ result = NotFoundResult
        /\ Len(requests) = 1

\* C4 (as claimed): whenever an operation returns after the upstream answered
\* its request with a 2xx status and a JSON body, the returned value is that
\* parsed JSON body.
EveryOperationReturnsJsonBody ==
    (/\ pc = "returned"
     /\ Is2xx(outcomes[Len(outcomes)])
     /\ outcomes[Len(outcomes)].body.enc = "json") =>
        result = Loads(outcomes[Len(outcomes)].body.doc)

\* C4 (amended): every call of the API client answered with a 2xx status and
\* a JSON body returns the parsed body unchanged, and every tool other than
\* trigger_macro_by_name returns that value as its own result.
JsonBodyVerbatim ==
    /\ \A k \in 1..Len(outcomes) :
          (Is2xx(outcomes[k]) /\ outcomes[k].body.enc = "json") =>
              returns[k] = Loads(outcomes[k].body.doc)
    /\ (/\ ~ByName
        /\ Len(outcomes) = 1
        /\ Is2xx(outcomes[1])
        /\ outcomes[1].body.enc = "json") =>
            /\ pc = "returned"
            /\ result = Loads(outcomes[1].body.doc)

JsonBodyVerbatimWitness ==
    /\ pc = "returned"
    /\ tool = "get_macros"
    /\ outcomes[1].status = 200
    /\ outcomes[1].body.enc = "json"
    /\ outcomes[1].body.doc.j = "array"
    /\ Len(outcomes[1].body.doc.elems) = MaxItems
    /\ result.type = "list"
    /\ Len(result.elems) = MaxItems

\* C5: every call of the API client answered with a non-2xx status returns
\* {status: "error", message, status_code} with status_code the response's
\* status and the message chosen by status: 404 names the endpoint, 401 and
\* 403 give the authentication message, 500 the server-error message, any
\* other status "HTTP <code> error: ..."; the body is never a success payload.
HttpErrorClassified ==
    \A k \in 1..Len(outcomes) :
        IsHttpError(outcomes[k]) =>
            LET r == returns[k]
                code == outcomes[k].status
                msg == DictGet(r, "message", None).s
            IN /\ r.type = "dict"
               /\ KeySet(r) = {"status", "message", "status_code"}
               /\ DictGet(r, "status", None) = [type |-> "str", s |-> <<"error">>]
               /\ DictGet(r, "status_code", None) = [type |-> "int", n |-> code]
               /\ code = 404 =>
                     /\ msg[1] = "Endpoint not found: "
                     /\ Contains(msg, requests[k].endpoint)
               /\ code \in {401, 403} =>
                     msg = <<"Authentication failed. Check if ProPresenter requires authentication credentials.">>
               /\ code = 500 =>
                     msg = <<"ProPresenter server error. The API request was received but ProPresenter encountered an internal error.">>
               /\ code \notin {404, 401, 403, 500} =>
                     /\ Len(msg) >= 3
                     /\ SubSeq(msg, 1, 3) = <<"HTTP ", ToString(code), " error: ">>

HttpErrorClassifiedWitness ==
    /\ pc = "returned"
    /\ tool = "trigger_look_by_id"
    /\ outcomes[1].kind = "response"
    /\ outcomes[1].status = 403
    /\ outcomes[1].body.enc = "json"
    /\ DictGet(result, "status_code", None) = [type |-> "int", n |-> 403]

\* C6 (as claimed): every transport-level failure of a request gives an error
\* result without status_code whose message names the configured base URL.
TransportFailureNamesTarget ==
    \A k \in 1..Len(outcomes) :
        IsTransportFailure(outcomes[k]) =>
            /\ returns[k].type = "dict"
            /\ KeySet(returns[k]) = {"status", "message"}
            /\ DictGet(returns[k], "status", None) = [type |-> "str", s |-> <<"error">>]
            /\ Contains(DictGet(returns[k], "message", None).s, ConfiguredTarget)

\* C6 (amended): every failure of a request before a response is obtained
\* gives an error result without status_code, which the operation returns; a
\* timeout or a connection failure names the configured base URL in its
\* message, any other failure carries the text of the exception instead.
TransportFailureReported ==
    \A k \in 1..Len(outcomes) :
        IsTransportFailure(outcomes[k]) =>
            LET r == returns[k]
                msg == DictGet(r, "message", None).s
            IN /\ r.type = "dict"
               /\ KeySet(r) = {"status", "message"}
               /\ DictGet(r, "status", None) = [type |-> "str", s |-> <<"error">>]
               /\ outcomes[k].kind \in {"timeout", "connect"} =>
                     Contains(msg, ConfiguredTarget)
               /\ outcomes[k].kind = "request_error" =>
                     msg = <<"Network error occurred: ", outcomes[k].detail>>
               /\ outcomes[k].kind = "unexpected" =>
                     msg = <<"Unexpected error: ", outcomes[k].detail>>
               /\ pc = "returned"
               /\ result = r

TransportFailureReportedWitness ==
    /\ pc = "returned"
    /\ tool = "next_slide"
    /\ outcomes[1].kind = "timeout"
    /\ host = "192.168.1.100"
    /\ Contains(DictGet(result, "message", None).s, <<"192.168.1.100", ":", "50001">>)

\* C7: every call of the API client answered with a 2xx status and a
\* zero-length body returns exactly {status: "success", message: "Action
\* completed successfully."}.
EmptyBodyCompleted ==
    \A k \in 1..Len(outcomes) :
        (Is2xx(outcomes[k]) /\ outcomes[k].body.enc = "empty") =>
            returns[k] = CompletedResult

\* C8: every call of the API client answered with a 2xx status and a
\* non-empty body that is not JSON returns {status: "success", data: <raw
\* text>}, never an error result.
NonJsonBodyAsText ==
    \A k \in 1..Len(outcomes) :
        (Is2xx(outcomes[k]) /\ outcomes[k].body.enc = "text") =>
            returns[k] =
                [type |-> "dict", keys |-> <<"status", "data">>,
                 vals |-> <<[type |-> "str", s |-> <<"success">>],
                            [type |-> "str", s |-> outcomes[k].body.raw]>>]

NonJsonBodyAsTextWitness ==
    /\ pc = "returned"
    /\ tool = "clear_all"
    /\ outcomes[1].status = 200
    /\ outcomes[1].body.enc = "text"
    /\ DictGet(result, "data", None) = [type |-> "str", s |-> <<"OK">>]

\* C9: no retries: each call of the API client is one request, so every
\* finished invocation has issued exactly one request, except
\* trigger_macro_by_name, which issues at most two: first the listing GET
\* /v1/macros, then a trigger request; neither is repeated.
NoRetries ==
    /\ Len(requests) = Len(outcomes) + (IF pc = "in_call" THEN 1 ELSE 0)
    /\ (tool # "" /\ ~ByName) => Len(requests) = 1
    /\ ByName =>
          /\ Len(requests) \in {1, 2}
          /\ requests[1].method = "GET"
          /\ requests[1].url = ConfiguredTarget \o ListingPath
          /\ Len(requests) = 2 =>
                /\ Len(requests[2].endpoint) = 3
                /\ requests[2].endpoint[1] = "/v1/macro/"
                /\ requests[2].endpoint[3] = "/trigger"

NoRetriesWitness ==
    /\ pc = "returned"
    /\ ByName
    /\ outcomes[1].kind = "timeout"
    /\ Len(requests) = 1

\* C10: when the listing call of trigger_macro_by_name ends in an error
\* result of the API client (transport failure or non-2xx status), the tool
\* returns that error result unchanged, not the not-found error, and issues
\* no trigger request.
ListingErrorPassedThrough ==
    (/\ ByName
     /\ Len(outcomes) >= 1
     /\ (IsTransportFailure(outcomes[1]) \/ IsHttpError(outcomes[1]))) =>
        /\ pc = "returned"
        /\ result = returns[1]
        /\ result # NotFoundResult
        /\ DictGet(result, "status", None) = [type |-> "str", s |-> <<"error">>]
        /\ IsHttpError(outcomes[1]) =>
              DictGet(result, "status_code", None) =
                  [type |-> "int", n |-> outcomes[1].status]
        /\ IsTransportFailure(outcomes[1]) => "status_code" \notin KeySet(result)
        /\ Len(requests) = 1

ListingErrorPassedThroughWitness ==
    /\ pc = "returned"
    /\ ByName
    /\ outcomes[1].kind = "response"
    /\ outcomes[1].status = 404
    /\ DictGet(result, "status_code", None) = [type |-> "int", n |-> 404]
    /\ Len(requests) = 1

====
